---- MODULE Spec2Model ----
(***************************************************************************)
(* Outline construction pipeline of browser_use/dom/serializer/outline.py: *)
(* landmark classification and detection, heading hierarchy extraction,   *)
(* and cross-step region change detection over a SimplifiedNode tree.      *)
(* With it, the trial runner of benchmarks/runner.py: the evaluation of a  *)
(* run against its success criteria and the life of one trial.             *)
(*                                                                         *)
(* A tree is a sequence of node records numbered in depth-first pre-order  *)
(* (node 1 is the root); a node's `children` is the ordered list of the    *)
(* numbers of its child nodes.  Python's None is the value None for        *)
(* strings and the empty tuple for optional integers.                      *)
(***************************************************************************)
EXTENDS Integers, Sequences, FiniteSets, TLC

VARIABLES
    tree,             \* the SimplifiedNode tree of the current observation
    prev_tree,        \* the tree of the previous observation (nodes `previous` refers to)
    previous,         \* previous_landmarks: None, or the previous LandmarkRegion list
    regions,          \* result of detect_landmarks(root)
    parent_landmark,  \* the parent_landmark argument of extract_heading_hierarchy
    headings,         \* result of extract_heading_hierarchy: heading objects and root list
    unchanged,        \* result of detect_unchanged_regions(regions, previous)
    pc,               \* position in the observation pipeline
    evaluation,       \* a call of benchmarks/runner.py _evaluate_result: arguments and result
    trial,            \* a call of benchmarks/runner.py _run_single_trial
    tasks             \* concurrent calls of detect_landmarks, one per task

vars == <<tree, prev_tree, previous, regions, parent_landmark, headings, unchanged, pc,
          evaluation, trial, tasks>>

-----------------------------------------------------------------------------
(* Bounds of the model *)

MaxNodes == 3
MaxHeadings == 4
MaxDiffNodes == 3

-----------------------------------------------------------------------------
(* Python values *)

None == "<None>"

\* NodeType.ELEMENT_NODE and one other node type
ELEMENT_NODE == "ELEMENT_NODE"
TEXT_NODE == "TEXT_NODE"

\* truthiness of an optional string: None and '' are falsy
Truthy(s) == s # None /\ s # ""

\* str.lower() on the strings the model draws roles and tag names from
Lower(s) ==
    CASE s = "Navigation" -> "navigation"
      [] s = "MAIN" -> "main"
      [] s = "Region" -> "region"
      [] s = "FORM" -> "form"
      [] s = "Heading" -> "heading"
      [] s = "NAV" -> "nav"
      [] s = "Header" -> "header"
      [] s = "H2" -> "h2"
      [] OTHER -> s

\* str.upper() on the landmark roles
Upper(s) ==
    CASE s = "banner" -> "BANNER"
      [] s = "navigation" -> "NAVIGATION"
      [] s = "main" -> "MAIN"
      [] s = "complementary" -> "COMPLEMENTARY"
      [] s = "contentinfo" -> "CONTENTINFO"
      [] s = "search" -> "SEARCH"
      [] s = "form" -> "FORM"
      [] s = "region" -> "REGION"
      [] OTHER -> s

-----------------------------------------------------------------------------
(* Landmark constants *)

LANDMARK_ROLES ==
    {"banner", "navigation", "main", "complementary", "contentinfo", "search", "form", "region"}

\* IMPLICIT_LANDMARK_TAGS.get(tag): the implicit role, or None
IMPLICIT_LANDMARK_TAGS(tag) ==
    CASE tag = "header" -> "banner"
      [] tag = "nav" -> "navigation"
      [] tag = "main" -> "main"
      [] tag = "aside" -> "complementary"
      [] tag = "footer" -> "contentinfo"
      [] tag = "search" -> "search"
      [] OTHER -> None

NAMED_ONLY_ROLES == {"form", "region"}

HEADING_TAGS == {"h1", "h2", "h3", "h4", "h5", "h6"}

-----------------------------------------------------------------------------
(* Nodes.  original_node's fields are flattened into the node record:      *)
(* node_type, tag_name, backend_node_id, and ax_node = [present, role,     *)
(* name, properties]; present = FALSE models ax_node = None.               *)

NoAx == [present |-> FALSE, role |-> None, name |-> None, properties |-> <<>>]

Ax(role, name, props) == [present |-> TRUE, role |-> role, name |-> name, properties |-> props]

\* AX property values: None, an int, a str, or a value int() rejects with TypeError
NoneVal == [t |-> "none", i |-> 0, s |-> ""]
IntVal(i) == [t |-> "int", i |-> i, s |-> ""]
StrVal(s) == [t |-> "str", i |-> 0, s |-> s]
ListVal == [t |-> "list", i |-> 0, s |-> ""]

Prop(name, value) == [name |-> name, value |-> value]

\* int(value): <<n>> on success, <<>> for ValueError / TypeError
PyInt(v) ==
    CASE v.t = "int" -> <<v.i>>
      [] v.t = "str" /\ v.s = "1" -> <<1>>
      [] v.t = "str" /\ v.s = "2" -> <<2>>
      [] v.t = "str" /\ v.s = " 3 " -> <<3>>
      [] v.t = "str" /\ v.s = "7" -> <<7>>
      [] OTHER -> <<>>

\* int(tag[1]) for a tag in HEADING_TAGS
TagDigit(tag) ==
    CASE tag = "h1" -> 1
      [] tag = "h2" -> 2
      [] tag = "h3" -> 3
      [] tag = "h4" -> 4
      [] tag = "h5" -> 5
      [] tag = "h6" -> 6

-----------------------------------------------------------------------------
(* Node classifier *)

\* ax_role of _get_landmark_role: the lowercased AX role, or None
AxRoleOf(node) ==
    IF node.ax_node.present /\ Truthy(node.ax_node.role)
    THEN Lower(node.ax_node.role)
    ELSE None

_get_ax_name(node) ==
    IF node.ax_node.present /\ Truthy(node.ax_node.name)
    THEN node.ax_node.name
    ELSE None

\* _get_landmark_role without the NAMED_ONLY_ROLES checks
GetLandmarkRoleNoGate(node) ==
    LET ax_role == AxRoleOf(node)
    IN  IF Truthy(ax_role) /\ ax_role \in LANDMARK_ROLES
        THEN ax_role
        ELSE IF node.node_type = ELEMENT_NODE
             THEN IMPLICIT_LANDMARK_TAGS(Lower(node.tag_name))
             ELSE None

\* _get_landmark_role with the two steps exchanged: implicit tag first, AX role second
GetLandmarkRoleTagFirst(node) ==
    LET ax_role == AxRoleOf(node)
        ax_name == _get_ax_name(node)
        implicit_role ==
            IF node.node_type = ELEMENT_NODE
            THEN IMPLICIT_LANDMARK_TAGS(Lower(node.tag_name))
            ELSE None
    IN  IF Truthy(implicit_role)
        THEN implicit_role
        ELSE IF Truthy(ax_role) /\ ax_role \in LANDMARK_ROLES
             THEN IF ax_role \in NAMED_ONLY_ROLES /\ ~Truthy(ax_name) THEN None ELSE ax_role
             ELSE None

_get_landmark_role(node) ==
    LET ax_role == AxRoleOf(node)
        ax_name == _get_ax_name(node)
    IN  IF Truthy(ax_role) /\ ax_role \in LANDMARK_ROLES
        THEN IF ax_role \in NAMED_ONLY_ROLES /\ ~Truthy(ax_name)
             THEN None
             ELSE ax_role
        ELSE IF node.node_type = ELEMENT_NODE
             THEN LET implicit_role == IMPLICIT_LANDMARK_TAGS(Lower(node.tag_name))
                  IN  IF Truthy(implicit_role)
                      THEN IF implicit_role \in NAMED_ONLY_ROLES /\ ~Truthy(ax_name)
                           THEN None
                           ELSE implicit_role
                      ELSE None
             ELSE None

\* The first `level` property whose value is not None and parses: <<n>>, else <<>>
RECURSIVE LevelFromProps(_)
LevelFromProps(props) ==
    IF props = <<>> THEN <<>>
    ELSE LET prop == Head(props)
             parsed == IF prop.name = "level" /\ prop.value.t # "none"
                       THEN PyInt(prop.value) ELSE <<>>
         IN  IF parsed # <<>> THEN parsed ELSE LevelFromProps(Tail(props))

\* a heading role whose `level` property gives nothing takes the default
\* level at once, without looking at the tag name
GetHeadingLevelNoTagFallback(node) ==
    LET tag == Lower(node.tag_name)
    IN  IF node.ax_node.present /\ Truthy(node.ax_node.role)
           /\ Lower(node.ax_node.role) = "heading"
        THEN LET fromProps == LevelFromProps(node.ax_node.properties)
             IN  IF fromProps # <<>> THEN fromProps ELSE <<1>>
        ELSE IF node.node_type = ELEMENT_NODE /\ tag \in HEADING_TAGS
             THEN <<TagDigit(tag)>>
             ELSE <<>>

\* <<level>> if the node is a heading, <<>> (None) otherwise
_get_heading_level(node) ==
    LET tag == Lower(node.tag_name)
    IN  IF node.ax_node.present /\ Truthy(node.ax_node.role)
           /\ Lower(node.ax_node.role) = "heading"
        THEN LET fromProps == LevelFromProps(node.ax_node.properties)
             IN  IF fromProps # <<>> THEN fromProps
                 ELSE IF tag \in HEADING_TAGS THEN <<TagDigit(tag)>>
                 ELSE <<1>>
        ELSE IF node.node_type = ELEMENT_NODE /\ tag \in HEADING_TAGS
             THEN <<TagDigit(tag)>>
             ELSE <<>>

\* get_all_children_text(max_depth=3) is the node's own `text` in this model
_get_heading_text(node) ==
    IF node.ax_node.present /\ Truthy(node.ax_node.name)
    THEN node.ax_node.name
    ELSE IF Truthy(node.text) THEN node.text ELSE ""

-----------------------------------------------------------------------------
(* Landmark detection.  `t` is the tree, `n` a node number.                *)

\* the count started at 0 instead of at the node itself: descendants only
RECURSIVE CountInteractiveBelow(_, _), CountBelowChildren(_, _)
CountInteractiveBelow(t, n) == CountBelowChildren(t, t[n].children)

CountBelowChildren(t, kids) ==
    IF kids = <<>> THEN 0
    ELSE (IF t[Head(kids)].is_interactive THEN 1 ELSE 0)
            + CountInteractiveBelow(t, Head(kids)) + CountBelowChildren(t, Tail(kids))

RECURSIVE _count_interactive(_, _), CountChildren(_, _)
_count_interactive(t, n) ==
    (IF t[n].is_interactive THEN 1 ELSE 0) + CountChildren(t, t[n].children)

\* the `for child in node.children: count += ...` loop
CountChildren(t, kids) ==
    IF kids = <<>> THEN 0
    ELSE _count_interactive(t, Head(kids)) + CountChildren(t, Tail(kids))

LandmarkRegion(role, name, node, depth, children, element_count, sub_regions) ==
    [role |-> role, name |-> name, node |-> node, depth |-> depth,
     children |-> children, element_count |-> element_count,
     sub_regions |-> sub_regions]

\* Nested landmarks are appended to the caller's accumulator as well as to
\* the enclosing region's sub_regions.
RECURSIVE DetectRecDup(_, _, _, _), DetectChildrenDup(_, _, _, _)
DetectRecDup(t, n, depth, accumulator) ==
    LET role == _get_landmark_role(t[n])
    IN  IF role # None
        THEN LET subs == DetectChildrenDup(t, t[n].children, depth + 1, <<>>)
                 region == LandmarkRegion(role, _get_ax_name(t[n]), n, depth,
                                          t[n].children, _count_interactive(t, n), subs)
             IN  Append(accumulator, region) \o subs
        ELSE DetectChildrenDup(t, t[n].children, depth + 1, accumulator)

DetectChildrenDup(t, kids, depth, accumulator) ==
    IF kids = <<>> THEN accumulator
    ELSE DetectChildrenDup(t, Tail(kids), depth,
                           DetectRecDup(t, Head(kids), depth, accumulator))

\* depth counted in landmarks: a node that is not a landmark hands its own
\* depth down unchanged
RECURSIVE DetectRecLandmarkDepth(_, _, _, _), DetectChildrenLandmarkDepth(_, _, _, _)
DetectRecLandmarkDepth(t, n, depth, accumulator) ==
    LET role == _get_landmark_role(t[n])
    IN  IF role # None
        THEN LET region == LandmarkRegion(role, _get_ax_name(t[n]), n, depth,
                                          t[n].children, _count_interactive(t, n),
                                          DetectChildrenLandmarkDepth(t, t[n].children, depth + 1, <<>>))
             IN  Append(accumulator, region)
        ELSE DetectChildrenLandmarkDepth(t, t[n].children, depth, accumulator)

DetectChildrenLandmarkDepth(t, kids, depth, accumulator) ==
    IF kids = <<>> THEN accumulator
    ELSE DetectChildrenLandmarkDepth(t, Tail(kids), depth,
                                     DetectRecLandmarkDepth(t, Head(kids), depth, accumulator))

\* the region put at the front of the accumulator instead of at its end
RECURSIVE DetectRecPrepend(_, _, _, _), DetectChildrenPrepend(_, _, _, _)
DetectRecPrepend(t, n, depth, accumulator) ==
    LET role == _get_landmark_role(t[n])
    IN  IF role # None
        THEN LET region == LandmarkRegion(role, _get_ax_name(t[n]), n, depth,
                                          t[n].children, _count_interactive(t, n),
                                          DetectChildrenPrepend(t, t[n].children, depth + 1, <<>>))
             IN  <<region>> \o accumulator
        ELSE DetectChildrenPrepend(t, t[n].children, depth + 1, accumulator)

DetectChildrenPrepend(t, kids, depth, accumulator) ==
    IF kids = <<>> THEN accumulator
    ELSE DetectChildrenPrepend(t, Tail(kids), depth,
                               DetectRecPrepend(t, Head(kids), depth, accumulator))

\* _detect_landmarks_recursive returns the accumulator after its appends
RECURSIVE _detect_landmarks_recursive(_, _, _, _), DetectChildren(_, _, _, _)
_detect_landmarks_recursive(t, n, depth, accumulator) ==
    LET role == _get_landmark_role(t[n])
    IN  IF role # None
        THEN LET region == LandmarkRegion(role, _get_ax_name(t[n]), n, depth,
                                          t[n].children, _count_interactive(t, n),
                                          DetectChildren(t, t[n].children, depth + 1, <<>>))
             IN  Append(accumulator, region)
        ELSE DetectChildren(t, t[n].children, depth + 1, accumulator)

\* the `for child in node.children` loops of _detect_landmarks_recursive
DetectChildren(t, kids, depth, accumulator) ==
    IF kids = <<>> THEN accumulator
    ELSE DetectChildren(t, Tail(kids), depth,
                        _detect_landmarks_recursive(t, Head(kids), depth, accumulator))

\* no descent below a root that is not a landmark itself
DetectLandmarksRootOnly(t, root, depth) ==
    IF _get_landmark_role(t[root]) # None
    THEN _detect_landmarks_recursive(t, root, depth, <<>>)
    ELSE <<>>

detect_landmarks(t, root, depth) == _detect_landmarks_recursive(t, root, depth, <<>>)

-----------------------------------------------------------------------------
(* Heading hierarchy extraction.  A HeadingNode object is identified by    *)
(* its position in the flat list; `children` holds such positions.         *)

HeadingNode(level, text, node, landmark) ==
    [level |-> level, text |-> text, node |-> node,
     parent_landmark |-> landmark, children |-> <<>>]

\* the label a landmark node sets: ROLE or ROLE: "name"
LandmarkLabel(node) ==
    LET landmark_role == _get_landmark_role(node)
        ax_name == _get_ax_name(node)
    IN  IF Truthy(ax_name)
        THEN Upper(landmark_role) \o ": \"" \o ax_name \o "\""
        ELSE Upper(landmark_role)

\* the heading is appended before the node's own landmark label is applied
RECURSIVE CollectFlatLate(_, _, _, _), CollectChildrenLate(_, _, _, _)
CollectFlatLate(t, n, current_landmark, accumulator) ==
    LET label == IF _get_landmark_role(t[n]) # None
                 THEN LandmarkLabel(t[n]) ELSE current_landmark
        level == _get_heading_level(t[n])
        acc1 == IF level # <<>>
                THEN Append(accumulator,
                            HeadingNode(level[1], _get_heading_text(t[n]), n, current_landmark))
                ELSE accumulator
    IN  CollectChildrenLate(t, t[n].children, label, acc1)

CollectChildrenLate(t, kids, current_landmark, accumulator) ==
    IF kids = <<>> THEN accumulator
    ELSE CollectChildrenLate(t, Tail(kids), current_landmark,
                             CollectFlatLate(t, Head(kids), current_landmark, accumulator))

\* the label kept in one variable shared by the whole walk: the last landmark
\* entered up to node n sets it, and leaving a landmark does not reset it
RECURSIVE CollectFlatLastWins(_, _, _, _), CollectChildrenLastWins(_, _, _, _)
CollectFlatLastWins(t, n, current_landmark, accumulator) ==
    LET entered == {m \in 1..n : _get_landmark_role(t[m]) # None}
        label == IF entered # {}
                 THEN LandmarkLabel(t[CHOOSE m \in entered : \A x \in entered : x <= m])
                 ELSE current_landmark
        level == _get_heading_level(t[n])
        acc1 == IF level # <<>>
                THEN Append(accumulator,
                            HeadingNode(level[1], _get_heading_text(t[n]), n, label))
                ELSE accumulator
    IN  CollectChildrenLastWins(t, t[n].children, current_landmark, acc1)

CollectChildrenLastWins(t, kids, current_landmark, accumulator) ==
    IF kids = <<>> THEN accumulator
    ELSE CollectChildrenLastWins(t, Tail(kids), current_landmark,
                                 CollectFlatLastWins(t, Head(kids), current_landmark, accumulator))

RECURSIVE _collect_headings_flat(_, _, _, _), CollectChildren(_, _, _, _)
_collect_headings_flat(t, n, current_landmark, accumulator) ==
    LET label == IF _get_landmark_role(t[n]) # None
                 THEN LandmarkLabel(t[n]) ELSE current_landmark
        level == _get_heading_level(t[n])
        acc1 == IF level # <<>>
                THEN Append(accumulator,
                            HeadingNode(level[1], _get_heading_text(t[n]), n, label))
                ELSE accumulator
    IN  CollectChildren(t, t[n].children, label, acc1)

\* the `for child in node.children` loop of _collect_headings_flat
CollectChildren(t, kids, current_landmark, accumulator) ==
    IF kids = <<>> THEN accumulator
    ELSE CollectChildren(t, Tail(kids), current_landmark,
                         _collect_headings_flat(t, Head(kids), current_landmark, accumulator))

\* the pop loop with > in place of >=
RECURSIVE PopStackStrict(_, _, _)
PopStackStrict(objs, stack, level) ==
    IF stack # <<>> /\ objs[stack[Len(stack)]].level > level
    THEN PopStackStrict(objs, SubSeq(stack, 1, Len(stack) - 1), level)
    ELSE stack

\* the pop loop as an `if`: at most one heading is popped
PopStackOnce(objs, stack, level) ==
    IF stack # <<>> /\ objs[stack[Len(stack)]].level >= level
    THEN SubSeq(stack, 1, Len(stack) - 1)
    ELSE stack

\* `while stack and stack[-1].level >= heading.level: stack.pop()`
RECURSIVE PopStack(_, _, _)
PopStack(objs, stack, level) ==
    IF stack # <<>> /\ objs[stack[Len(stack)]].level >= level
    THEN PopStack(objs, SubSeq(stack, 1, Len(stack) - 1), level)
    ELSE stack

\* the loop body with the heading inserted in front of its parent's children
NestStepPrepend(st, i) ==
    LET stack == PopStack(st.objs, st.stack, st.objs[i].level)
    IN  IF stack # <<>>
        THEN [objs |-> [st.objs EXCEPT ![stack[Len(stack)]].children = <<i>> \o @],
              root |-> st.root,
              stack |-> Append(stack, i)]
        ELSE [objs |-> st.objs,
              root |-> Append(st.root, i),
              stack |-> Append(stack, i)]

\* the heading pushed only when it went to the root list
NestStepPushRootsOnly(st, i) ==
    LET stack == PopStack(st.objs, st.stack, st.objs[i].level)
    IN  IF stack # <<>>
        THEN [objs |-> [st.objs EXCEPT ![stack[Len(stack)]].children = Append(@, i)],
              root |-> st.root,
              stack |-> stack]
        ELSE [objs |-> st.objs,
              root |-> Append(st.root, i),
              stack |-> Append(stack, i)]

\* one iteration of the `for heading in flat` loop; st = [objs, root, stack]
NestStep(st, i) ==
    LET stack == PopStack(st.objs, st.stack, st.objs[i].level)
    IN  IF stack # <<>>
        THEN [objs |-> [st.objs EXCEPT ![stack[Len(stack)]].children = Append(@, i)],
              root |-> st.root,
              stack |-> Append(stack, i)]
        ELSE [objs |-> st.objs,
              root |-> Append(st.root, i),
              stack |-> Append(stack, i)]

RECURSIVE NestLoop(_, _)
NestLoop(st, i) ==
    IF i > Len(st.objs) THEN st ELSE NestLoop(NestStep(st, i), i + 1)

\* the children lists emptied before the headings are nested
NestHeadingsCleared(flat) ==
    IF flat = <<>>
    THEN [objs |-> flat, root |-> <<>>]
    ELSE LET st == NestLoop([objs |-> [i \in DOMAIN flat |-> [flat[i] EXCEPT !.children = <<>>]],
                             root |-> <<>>, stack |-> <<>>], 1)
         IN  [objs |-> st.objs, root |-> st.root]

\* the heading objects after the call and the returned root list
_nest_headings(flat) ==
    IF flat = <<>>
    THEN [objs |-> flat, root |-> <<>>]
    ELSE LET st == NestLoop([objs |-> flat, root |-> <<>>, stack |-> <<>>], 1)
         IN  [objs |-> st.objs, root |-> st.root]

extract_heading_hierarchy(t, root, landmark) ==
    _nest_headings(_collect_headings_flat(t, root, landmark, <<>>))

-----------------------------------------------------------------------------
(* Region change detection *)

_region_key(region) ==
    region.role \o ":" \o (IF Truthy(region.name) THEN region.name ELSE "")

\* the ids kept as a tuple in document order instead of a frozenset
RECURSIVE CollectIdTuple(_, _), CollectIdTupleChildren(_, _)
CollectIdTuple(t, n) ==
    (IF t[n].is_interactive THEN <<t[n].backend_node_id>> ELSE <<>>)
        \o CollectIdTupleChildren(t, t[n].children)

CollectIdTupleChildren(t, kids) ==
    IF kids = <<>> THEN <<>>
    ELSE CollectIdTuple(t, Head(kids)) \o CollectIdTupleChildren(t, Tail(kids))

RegionElementIdTuple(t, region) == CollectIdTuple(t, region.node)

RECURSIVE _collect_backend_ids(_, _), CollectIdsChildren(_, _)
_collect_backend_ids(t, n) ==
    (IF t[n].is_interactive THEN {t[n].backend_node_id} ELSE {})
        \cup CollectIdsChildren(t, t[n].children)

CollectIdsChildren(t, kids) ==
    IF kids = <<>> THEN {}
    ELSE _collect_backend_ids(t, Head(kids)) \cup CollectIdsChildren(t, Tail(kids))

_region_element_ids(t, region) == _collect_backend_ids(t, region.node)

EmptyDict == [k \in {} |-> FALSE]

\* dict[key] = value
DictSet(d, key, value) == (key :> value) @@ d

\* previous_landmarks: None, or a list of regions
NoPrevious == [is_none |-> TRUE, list |-> <<>>]
SomePrevious(list) == [is_none |-> FALSE, list |-> list]

\* prev_map filled with setdefault: the first region of a key is kept
RECURSIVE PrevMapFirstWins(_, _, _)
PrevMapFirstWins(pt, prev, prev_map) ==
    IF prev = <<>> THEN prev_map
    ELSE LET r == Head(prev)
             key == _region_key(r)
         IN  PrevMapFirstWins(pt, Tail(prev),
                 IF key \in DOMAIN prev_map THEN prev_map
                 ELSE DictSet(prev_map, key,
                              [count |-> r.element_count, ids |-> _region_element_ids(pt, r)]))

\* prev_map after the `for r in previous` loop
RECURSIVE PrevMap(_, _, _)
PrevMap(pt, prev, prev_map) ==
    IF prev = <<>> THEN prev_map
    ELSE LET r == Head(prev)
         IN  PrevMap(pt, Tail(prev),
                     DictSet(prev_map, _region_key(r),
                             [count |-> r.element_count, ids |-> _region_element_ids(pt, r)]))

\* result after the `for r in current` loop
RECURSIVE DiffLoop(_, _, _, _)
DiffLoop(t, current, prev_map, result) ==
    IF current = <<>> THEN result
    ELSE LET r == Head(current)
             key == _region_key(r)
             value == IF key \notin DOMAIN prev_map
                      THEN FALSE
                      ELSE r.element_count = prev_map[key].count
                           /\ _region_element_ids(t, r) = prev_map[key].ids
         IN  DiffLoop(t, Tail(current), prev_map, DictSet(result, key, value))

\* without the `previous is None` early return: a missing previous list is
\* taken to be the current one
DetectUnchangedNoneAsSame(t, current, pt, prev) ==
    IF prev.is_none
    THEN DiffLoop(t, current, PrevMap(t, current, EmptyDict), EmptyDict)
    ELSE DiffLoop(t, current, PrevMap(pt, prev.list, EmptyDict), EmptyDict)

\* regions correlated by their node as well as by their key
DetectUnchangedByNode(t, current, pt, prev) ==
    IF prev.is_none
    THEN [k \in {_region_key(current[i]) : i \in DOMAIN current} |-> FALSE]
    ELSE LET result == DiffLoop(t, current, PrevMap(pt, prev.list, EmptyDict), EmptyDict)
         IN  [k \in DOMAIN result |->
                 /\ result[k]
                 /\ \E i \in DOMAIN current, j \in DOMAIN prev.list :
                       /\ _region_key(current[i]) = k
                       /\ _region_key(prev.list[j]) = k
                       /\ current[i].node = prev.list[j].node]

\* the keys of regions that disappeared are reported too, as changed
DetectUnchangedWithPrevKeys(t, current, pt, prev) ==
    IF prev.is_none
    THEN [k \in {_region_key(current[i]) : i \in DOMAIN current} |-> FALSE]
    ELSE DiffLoop(t, current, PrevMap(pt, prev.list, EmptyDict), EmptyDict)
            @@ [k \in {_region_key(prev.list[j]) : j \in DOMAIN prev.list} |-> FALSE]

\* `current` lives in tree t, `prev.list` in tree pt
detect_unchanged_regions(t, current, pt, prev) ==
    IF prev.is_none
    THEN [k \in {_region_key(current[i]) : i \in DOMAIN current} |-> FALSE]
    ELSE DiffLoop(t, current, PrevMap(pt, prev.list, EmptyDict), EmptyDict)

-----------------------------------------------------------------------------
(* The trees handed in by the tree builder *)

\* ancestors-or-self of node i under parent vector p (parent of the root is 0)
RECURSIVE AncSelf(_, _)
AncSelf(p, i) == IF i = 0 THEN {} ELSE {i} \cup AncSelf(p, p[i])

\* parent vectors of the ordered trees with n nodes numbered in pre-order
TreeShapes(n) ==
    {p \in [1..n -> 0..(n - 1)] :
        p[1] = 0 /\ \A i \in 2..n : p[i] \in AncSelf(p, i - 1)}

\* the children of node i from node j on, in document order
RECURSIVE KidsFrom(_, _, _)
KidsFrom(p, i, j) ==
    IF j > Len(p) THEN <<>>
    ELSE (IF p[j] = i THEN <<j>> ELSE <<>>) \o KidsFrom(p, i, j + 1)

\* descriptor of a node: everything but its children and backend_node_id
Desc(node_type, tag, ax, interactive, text) ==
    [node_type |-> node_type, tag_name |-> tag, ax_node |-> ax,
     is_interactive |-> interactive, text |-> text]

\* the tree of shape p whose node i has descriptor kinds[i] and backend id ids[i]
MkTree(p, kinds, ids) ==
    [i \in 1..Len(p) |->
        [node_type |-> kinds[i].node_type, tag_name |-> kinds[i].tag_name,
         ax_node |-> kinds[i].ax_node, is_interactive |-> kinds[i].is_interactive,
         text |-> kinds[i].text, backend_node_id |-> ids[i],
         children |-> KidsFrom(p, i, i + 1)]]

\* backend ids in document order
DocIds(n) == [i \in 1..n |-> i]

\* Node kinds of a page: containers, landmarks, headings and controls
PageKinds ==
    {Desc(ELEMENT_NODE, "div", Ax("generic", None, <<>>), FALSE, ""),
     Desc(ELEMENT_NODE, "header", NoAx, FALSE, ""),
     Desc(ELEMENT_NODE, "nav", Ax("navigation", "Primary", <<>>), FALSE, ""),
     Desc(ELEMENT_NODE, "div", Ax("region", None, <<>>), FALSE, ""),
     Desc(ELEMENT_NODE, "h1", NoAx, FALSE, "Title"),
     Desc(ELEMENT_NODE, "h2", Ax("heading", "Section A", <<Prop("level", IntVal(2))>>), FALSE, ""),
     Desc(ELEMENT_NODE, "h3", Ax("main", None, <<>>), FALSE, "Sub"),
     Desc(ELEMENT_NODE, "button", Ax("button", "OK", <<>>), TRUE, "OK"),
     Desc(TEXT_NODE, "#text", NoAx, FALSE, "hello")}

\* Single nodes over every combination of node type, tag, role, name and level property
ClassifyRoles ==
    {None, "", "banner", "navigation", "Navigation", "main", "MAIN", "complementary",
     "contentinfo", "search", "form", "FORM", "region", "Region", "generic",
     "heading", "Heading", "button"}

ClassifyNames == {None, "", "Special Section"}

ClassifyTags ==
    {"header", "Header", "nav", "NAV", "main", "aside", "footer", "search",
     "form", "section", "div", "h1", "H2", "h6"}

ClassifyProps ==
    {<<>>,
     <<Prop("level", IntVal(3))>>,
     <<Prop("level", StrVal("2"))>>,
     <<Prop("level", NoneVal), Prop("level", StrVal("x")), Prop("level", IntVal(7))>>,
     <<Prop("busy", IntVal(4)), Prop("level", ListVal)>>}

ClassifyAx ==
    {NoAx} \cup {Ax(r, nm, <<>>) : r \in ClassifyRoles, nm \in ClassifyNames}
           \cup {Ax(r, None, pr) : r \in {"heading", "Heading", "main"}, pr \in ClassifyProps}

ClassifyKinds ==
    {Desc(ELEMENT_NODE, tg, ax, FALSE, "") : tg \in ClassifyTags, ax \in ClassifyAx}
        \cup {Desc(TEXT_NODE, "#text", ax, FALSE, "text") : ax \in ClassifyAx}

\* A container with up to MaxHeadings headings of arbitrary levels below it
NestLevels == {1, 2, 3, 6}

HeadingKind(l) ==
    Desc(ELEMENT_NODE, "div", Ax("heading", None, <<Prop("level", IntVal(l))>>), FALSE, "H")

StarShape(n) == [i \in 1..n |-> IF i = 1 THEN 0 ELSE 1]

NestTrees ==
    UNION {{MkTree(StarShape(n + 1),
                   [i \in 1..(n + 1) |->
                       IF i = 1 THEN Desc(ELEMENT_NODE, "div", NoAx, FALSE, "")
                       ELSE HeadingKind(ls[i - 1])],
                   DocIds(n + 1)) : ls \in [1..n -> NestLevels]} :
           n \in 0..MaxHeadings}

\* Node kinds of the pages compared across two observations
DiffKinds ==
    {Desc(ELEMENT_NODE, "div", NoAx, FALSE, ""),
     Desc(ELEMENT_NODE, "button", Ax("button", "OK", <<>>), TRUE, ""),
     Desc(ELEMENT_NODE, "nav", Ax("navigation", None, <<>>), FALSE, ""),
     Desc(ELEMENT_NODE, "nav", Ax("navigation", None, <<>>), TRUE, ""),
     Desc(ELEMENT_NODE, "main", NoAx, FALSE, "")}

\* Pages with sibling regions, the first of which has a node below it:
\* div > [x > y, z], where x, y, z are nodes of the diff or a named nav.
SiblingRegionShape == <<0, 1, 2, 1>>

SiblingRegionKinds ==
    {k \in [1..4 -> DiffKinds \cup {Desc(ELEMENT_NODE, "nav", Ax("navigation", "Primary", <<>>), FALSE, "")}] :
        k[1] = Desc(ELEMENT_NODE, "div", NoAx, FALSE, "")}

SwapAt(f, i, j) == [f EXCEPT ![i] = f[j], ![j] = f[i]]

\* The pages one change away from the page of shape p and kinds k whose
\* backend ids are in document order: the same page, a node replaced (keeping
\* its backend id or getting a fresh one), two nodes trading places, the last
\* node removed, a node added at the end.
ChangedPages(p, k) ==
    LET n == Len(p)
        ids == DocIds(n)
    IN  {MkTree(p, k, ids)}
        \cup {MkTree(p, [k EXCEPT ![i] = d], [ids EXCEPT ![i] = IF fresh THEN n + 1 ELSE i]) :
                i \in 1..n, d \in DiffKinds, fresh \in BOOLEAN}
        \cup {MkTree(p, SwapAt(k, ij[1], ij[2]), SwapAt(ids, ij[1], ij[2])) :
                ij \in {x \in (1..n) \X (1..n) : x[1] < x[2]}}
        \cup (IF n > 1
              THEN {MkTree(SubSeq(p, 1, n - 1), SubSeq(k, 1, n - 1), DocIds(n - 1))}
              ELSE {})
        \cup (IF n < MaxDiffNodes
              THEN {MkTree(Append(p, a), Append(k, d), DocIds(n + 1)) :
                      a \in AncSelf(p, n), d \in DiffKinds}
              ELSE {})

-----------------------------------------------------------------------------
(* The observation pipeline *)

NoHeadings == [objs |-> <<>>, root |-> <<>>]

\* no call of the runner, no concurrent task
NoEvaluation == [pc |-> "idle"]
NoTrial == [pc |-> "idle"]
NoTasks == <<>>

Outputs0 ==
    /\ regions = <<>>
    /\ parent_landmark = None
    /\ headings = NoHeadings
    /\ unchanged = EmptyDict
    /\ pc = "start"
    /\ evaluation = NoEvaluation
    /\ trial = NoTrial
    /\ tasks = NoTasks

\* first observation of tree t: no previous landmarks
FirstObservation(t) ==
    /\ tree = t
    /\ prev_tree = <<>>
    /\ previous = NoPrevious
    /\ Outputs0

\* second observation: previous_landmarks are the landmarks detected on page pt
SecondObservation(pt, t) ==
    /\ tree = t
    /\ prev_tree = pt
    /\ previous = SomePrevious(detect_landmarks(pt, 1, 0))
    /\ Outputs0

InitOver(kinds, maxn) ==
    \E n \in 1..maxn : \E p \in TreeShapes(n), k \in [1..n -> kinds] :
        FirstObservation(MkTree(p, k, DocIds(n)))

Init == InitOver(PageKinds, MaxNodes)

InitClassify == InitOver(ClassifyKinds, 1)

InitNest == \E t \in NestTrees : FirstObservation(t)

InitDiff ==
    \/ InitOver(DiffKinds, MaxDiffNodes)
    \/ \E n \in 1..MaxDiffNodes : \E p \in TreeShapes(n), k \in [1..n -> DiffKinds] :
          \E cur \in ChangedPages(p, k) :
              SecondObservation(MkTree(p, k, DocIds(n)), cur)
    \/ \E k \in SiblingRegionKinds : \E cur \in ChangedPages(SiblingRegionShape, k) :
          SecondObservation(MkTree(SiblingRegionShape, k, DocIds(4)), cur)

\* the child lists of the landmark nodes moved into their regions, not copied
DetectLandmarksDetaching ==
    /\ pc = "start"
    /\ regions' = detect_landmarks(tree, 1, 0)
    /\ tree' = [n \in DOMAIN tree |->
                  IF _get_landmark_role(tree[n]) # None
                  THEN [tree[n] EXCEPT !.children = <<>>]
                  ELSE tree[n]]
    /\ pc' = "landmarks"
    /\ UNCHANGED <<prev_tree, previous, parent_landmark, headings, unchanged, evaluation, trial, tasks>>

\* regions = detect_landmarks(root)
DetectLandmarks ==
    /\ pc = "start"
    /\ regions' = detect_landmarks(tree, 1, 0)
    /\ pc' = "landmarks"
    /\ UNCHANGED <<tree, prev_tree, previous, parent_landmark, headings, unchanged, evaluation, trial, tasks>>

\* unchanged = detect_unchanged_regions(regions, previous_landmarks)
DetectUnchanged ==
    /\ pc = "landmarks"
    /\ unchanged' = detect_unchanged_regions(tree, regions, prev_tree, previous)
    /\ pc' = "diffed"
    /\ UNCHANGED <<tree, prev_tree, previous, regions, parent_landmark, headings, evaluation, trial, tasks>>

\* headings = extract_heading_hierarchy(root, parent_landmark)
ExtractHeadings ==
    /\ pc = "diffed"
    /\ \E pl \in {None, "REGION: \"Outer\""} :
          /\ parent_landmark' = pl
          /\ headings' = extract_heading_hierarchy(tree, 1, pl)
    /\ pc' = "done"
    /\ UNCHANGED <<tree, prev_tree, previous, regions, unchanged, evaluation, trial, tasks>>

Next == DetectLandmarks \/ DetectUnchanged \/ ExtractHeadings

Spec == Init /\ [][Next]_vars

SpecClassify == InitClassify /\ [][Next]_vars

SpecNest == InitNest /\ [][Next]_vars

SpecDiff == InitDiff /\ [][Next]_vars

\* Every call returns.  This is weak fairness of Next, WF_vars(Next), with
\* ENABLED <<Next>>_vars written out: a step is possible exactly when the last
\* of the three calls has not returned yet.
SpecLive == Init /\ [][Next]_vars /\ ([]<>(pc = "done") \/ []<><<Next>>_vars)

-----------------------------------------------------------------------------
(* benchmarks/runner.py: _evaluate_result.  A text is a tuple of           *)
(* characters; an optional value is the empty tuple (None) or a tuple of   *)
(* one element.                                                            *)

MaxNeedles == 2
MaxDownloads == 2

\* str.lower() on the characters of the texts of the model
LowerChar(c) ==
    CASE c = "O" -> "o"
      [] c = "K" -> "k"
      [] OTHER -> c

LowerText(text) == [i \in DOMAIN text |-> LowerChar(text[i])]

\* `needle in text`
TextContains(text, needle) ==
    \E i \in 0..(Len(text) - Len(needle)) : SubSeq(text, i + 1, i + Len(needle)) = needle

\* the keys of criteria_met: f'contains:{needle}', f'files_downloaded>={n}'
\* and 'agent_self_assessment'
ContainsKey(needle) == [kind |-> "contains:", needle |-> needle, n |-> 0]
DownloadsKey(expected) == [kind |-> "files_downloaded>=", needle |-> <<>>, n |-> expected]
SelfAssessmentKey == [kind |-> "agent_self_assessment", needle |-> <<>>, n |-> 0]

\* a downloads directory: whether it exists and how many files it holds
_count_downloads(downloads_path) ==
    IF downloads_path = <<>> THEN 0
    ELSE IF ~downloads_path[1].exists THEN 0
    ELSE downloads_path[1].files

\* criteria_met after the `for needle in contains` loop
RECURSIVE ContainsLoop(_, _, _)
ContainsLoop(contains, final_lower, criteria_met) ==
    IF contains = <<>> THEN criteria_met
    ELSE LET needle == Head(contains)
             found == TextContains(final_lower, LowerText(needle))
         IN  ContainsLoop(Tail(contains), final_lower,
                          DictSet(criteria_met, ContainsKey(needle), found))

RECURSIVE Gcd(_, _)
Gcd(a, b) == IF b = 0 THEN a ELSE Gcd(b, a % b)

\* the float n / d, as a fraction in lowest terms; 1.0 is <<1, 1>>, 0.0 is <<0, 1>>
Float(n, d) == <<n \div Gcd(n, d), d \div Gcd(n, d)>>

\* files_downloaded is a criterion whatever the model is
EvaluateResultEnforcingMock(history, expected_result, downloads_path, model) ==
    IF expected_result = <<>>
    THEN LET passed == history.is_successful = "True"
         IN  [passed |-> passed,
              score |-> IF passed THEN Float(1, 1) ELSE Float(0, 1),
              criteria_met |-> DictSet(EmptyDict, SelfAssessmentKey, passed)]
    ELSE LET final == IF history.final_result = <<>> THEN <<>> ELSE history.final_result[1]
             with_contains == ContainsLoop(expected_result[1].contains, LowerText(final), EmptyDict)
             expected_downloads == expected_result[1].files_downloaded
             criteria_met ==
                 IF expected_downloads # <<>> /\ downloads_path # <<>>
                 THEN DictSet(with_contains, DownloadsKey(expected_downloads[1]),
                              _count_downloads(downloads_path) >= expected_downloads[1])
                 ELSE with_contains
             n_met == Cardinality({k \in DOMAIN criteria_met : criteria_met[k]})
         IN  [passed |-> \A k \in DOMAIN criteria_met : criteria_met[k],
              score |-> IF DOMAIN criteria_met # {}
                        THEN Float(n_met, Cardinality(DOMAIN criteria_met))
                        ELSE Float(1, 1),
              criteria_met |-> criteria_met]

\* (passed, score, criteria_met)
_evaluate_result(history, expected_result, downloads_path, model) ==
    IF expected_result = <<>>
    THEN LET passed == history.is_successful = "True"
         IN  [passed |-> passed,
              score |-> IF passed THEN Float(1, 1) ELSE Float(0, 1),
              criteria_met |-> DictSet(EmptyDict, SelfAssessmentKey, passed)]
    ELSE LET final == IF history.final_result = <<>> THEN <<>> ELSE history.final_result[1]
             with_contains == ContainsLoop(expected_result[1].contains, LowerText(final), EmptyDict)
             expected_downloads == expected_result[1].files_downloaded
             criteria_met ==
                 IF expected_downloads # <<>> /\ downloads_path # <<>> /\ model # "mock"
                 THEN DictSet(with_contains, DownloadsKey(expected_downloads[1]),
                              _count_downloads(downloads_path) >= expected_downloads[1])
                 ELSE with_contains
             n_met == Cardinality({k \in DOMAIN criteria_met : criteria_met[k]})
         IN  [passed |-> IF DOMAIN criteria_met # {}
                         THEN \A k \in DOMAIN criteria_met : criteria_met[k]
                         ELSE TRUE,
              score |-> IF DOMAIN criteria_met # {}
                        THEN Float(n_met, Cardinality(DOMAIN criteria_met))
                        ELSE Float(1, 1),
              criteria_met |-> criteria_met]

\* the arguments of the calls of the model
FinalTexts == {<<>>, <<"o">>, <<"O", "k">>}
Needles == {<<"O">>, <<"k">>, <<"x">>}
Histories ==
    [is_successful : {"True", "False", None},
     final_result : {<<>>} \cup {<<text>> : text \in FinalTexts}]

ListsUpTo(S, n) == UNION {[1..m -> S] : m \in 0..n}

ExpectedResults ==
    {<<>>} \cup {<<d>> : d \in [contains : ListsUpTo(Needles, MaxNeedles),
                                files_downloaded : {<<>>} \cup {<<n>> : n \in 0..MaxDownloads}]}

DownloadsPaths ==
    {<<>>, <<[exists |-> FALSE, files |-> 0]>>}
        \cup {<<[exists |-> TRUE, files |-> n]>> : n \in 0..MaxDownloads}

Models == {"mock", "gpt-4o"}

\* the outline pipeline is not running
OutlineIdle ==
    /\ tree = <<>>
    /\ prev_tree = <<>>
    /\ previous = NoPrevious
    /\ regions = <<>>
    /\ parent_landmark = None
    /\ headings = NoHeadings
    /\ unchanged = EmptyDict
    /\ pc = "idle"

InitEvaluate ==
    /\ OutlineIdle
    /\ trial = NoTrial
    /\ tasks = NoTasks
    /\ \E history \in Histories, expected_result \in ExpectedResults,
          downloads_path \in DownloadsPaths, model \in Models :
          evaluation = [pc |-> "called", history |-> history,
                        expected_result |-> expected_result,
                        downloads_path |-> downloads_path, model |-> model]

\* passed, score, criteria_met = _evaluate_result(history, expected_result, downloads_path, model)
EvaluateResult ==
    /\ evaluation.pc = "called"
    /\ LET r == _evaluate_result(evaluation.history, evaluation.expected_result,
                                 evaluation.downloads_path, evaluation.model)
       IN  evaluation' = [pc |-> "returned", history |-> evaluation.history,
                          expected_result |-> evaluation.expected_result,
                          downloads_path |-> evaluation.downloads_path,
                          model |-> evaluation.model,
                          passed |-> r.passed, score |-> r.score,
                          criteria_met |-> r.criteria_met]
    /\ UNCHANGED <<tree, prev_tree, previous, regions, parent_landmark, headings,
                   unchanged, pc, trial, tasks>>

SpecEvaluate == InitEvaluate /\ [][EvaluateResult]_vars

-----------------------------------------------------------------------------
(* benchmarks/runner.py: _run_single_trial.  One step per awaited call or  *)
(* block of the function; a block of the try statement either completes or *)
(* raises.  session.kill() and event_bus.stop() are taken to return.       *)

\* what a block may raise: an Exception, or a BaseException that is none
\* (KeyboardInterrupt, asyncio.CancelledError), with its text
Errors == [class : {"Exception", "BaseException"}, text : {"net::ERR", "stopped"}]

\* the histories agent.run may return
TrialHistories ==
    [is_successful : {"True", None},
     final_result : {<<>>, <<(<<"O", "k">>)>>},
     number_of_steps : {1, 2}]

\* the tasks of the trials: expected_result and model
TrialTasks ==
    [expected_result : {<<>>, <<[contains |-> <<(<<"k">>)>>, files_downloaded |-> <<1>>]>>},
     model : Models]

NoPending == [kind |-> "none"]

\* extract_metrics(history), in the fields the trial sets or the caller reads
extract_metrics(history) ==
    [steps |-> history.number_of_steps,
     success |-> history.is_successful,
     score |-> Float(0, 1),
     criteria_met |-> EmptyDict,
     error_count |-> 0,
     final_result |-> history.final_result]

\* the TaskRunMetrics of the except block
FailureMetrics(e) ==
    [steps |-> 0,
     success |-> "False",
     score |-> Float(0, 1),
     criteria_met |-> EmptyDict,
     error_count |-> 1,
     final_result |-> <<e.text>>]

PyBool(b) == IF b THEN "True" ELSE "False"

InitTrial ==
    /\ OutlineIdle
    /\ evaluation = NoEvaluation
    /\ tasks = NoTasks
    /\ \E task \in TrialTasks :
          trial = [pc |-> "create_session", task |-> task, session |-> "none",
                   kills |-> 0, bus_stops |-> 0, downloads |-> 0,
                   history |-> <<>>, exc |-> <<>>, pending |-> NoPending,
                   outcome |-> NoPending]

\* an Exception is not caught either: no except clause
RaiseInTryUncaught(e) ==
    trial' = [trial EXCEPT !.pc = "kill", !.exc = <<e>>,
                           !.pending = [kind |-> "raise", exc |-> e]]

\* an exception leaves a block of the try statement: `except Exception`
\* takes it if it is one, otherwise the finally block runs with it in flight;
\* `exc` keeps the exception that left the block
RaiseInTry(e) ==
    IF e.class = "Exception"
    THEN trial' = [trial EXCEPT !.pc = "except", !.exc = <<e>>]
    ELSE trial' = [trial EXCEPT !.pc = "kill", !.exc = <<e>>,
                                !.pending = [kind |-> "raise", exc |-> e]]

TrialFrame ==
    UNCHANGED <<tree, prev_tree, previous, regions, parent_landmark, headings,
                unchanged, pc, evaluation, tasks>>

\* session = await create_benchmark_browser_session(...), before the try
CreateSession ==
    /\ trial.pc = "create_session"
    /\ \/ trial' = [trial EXCEPT !.pc = "setup", !.session = "live"]
       \/ \E e \in Errors :
             trial' = [trial EXCEPT !.pc = "raised", !.outcome = [kind |-> "raise", exc |-> e]]
    /\ TrialFrame

\* the try block up to Agent(...): task string, LLM, agent
SetUpAgent ==
    /\ trial.pc = "setup"
    /\ \/ trial' = [trial EXCEPT !.pc = "run"]
       \/ \E e \in Errors : RaiseInTry(e)
    /\ TrialFrame

\* history = await agent.run(max_steps=max_steps)
RunAgent ==
    /\ trial.pc = "run"
    /\ \/ \E h \in TrialHistories, files \in 0..MaxDownloads :
             trial' = [trial EXCEPT !.pc = "evaluate", !.history = <<h>>, !.downloads = files]
       \/ \E e \in Errors : RaiseInTry(e)
    /\ TrialFrame

\* metrics, evaluation, download count and `return metrics, actual_downloads, history`
ReturnMetrics ==
    /\ trial.pc = "evaluate"
    /\ \/ LET history == trial.history[1]
              downloads_dir == <<[exists |-> TRUE, files |-> trial.downloads]>>
              r == _evaluate_result(history, trial.task.expected_result, downloads_dir,
                                    trial.task.model)
              metrics == [extract_metrics(history) EXCEPT
                              !.success = PyBool(r.passed),
                              !.score = r.score,
                              !.criteria_met = r.criteria_met]
          IN  trial' = [trial EXCEPT
                           !.pc = "kill",
                           !.pending = [kind |-> "return", metrics |-> metrics,
                                        downloads |-> _count_downloads(downloads_dir),
                                        history |-> <<history>>]]
       \/ \E e \in Errors : RaiseInTry(e)
    /\ TrialFrame

\* except Exception as e: return TaskRunMetrics(...), 0, None
ExceptException ==
    /\ trial.pc = "except"
    /\ trial' = [trial EXCEPT
                    !.pc = "kill",
                    !.pending = [kind |-> "return", metrics |-> FailureMetrics(trial.exc[1]),
                                 downloads |-> 0, history |-> <<>>]]
    /\ TrialFrame

\* finally: await session.kill()
KillSession ==
    /\ trial.pc = "kill"
    /\ trial' = [trial EXCEPT !.pc = "stop_bus", !.session = "killed", !.kills = @ + 1]
    /\ TrialFrame

\* finally: await session.event_bus.stop(clear=True, timeout=5); then the
\* pending return or exception takes effect
StopEventBus ==
    /\ trial.pc = "stop_bus"
    /\ trial' = [trial EXCEPT
                    !.pc = IF trial.pending.kind = "raise" THEN "raised" ELSE "returned",
                    !.bus_stops = @ + 1,
                    !.pending = NoPending,
                    !.outcome = trial.pending]
    /\ TrialFrame

NextTrial ==
    \/ CreateSession
    \/ SetUpAgent
    \/ RunAgent
    \/ ReturnMetrics
    \/ ExceptException
    \/ KillSession
    \/ StopEventBus

SpecTrial == InitTrial /\ [][NextTrial]_vars

-----------------------------------------------------------------------------
(* Concurrent calls of detect_landmarks, one per task, each on its own     *)
(* tree.  A task runs _detect_landmarks_recursive one call or return at a  *)
(* time; `stack` holds the frames of the calls in progress, `result` the   *)
(* accumulator of detect_landmarks.  The tasks take their steps in any     *)
(* order.                                                                  *)

MaxTaskNodes == 2

TaskKinds ==
    {Desc(ELEMENT_NODE, "div", NoAx, FALSE, ""),
     Desc(ELEMENT_NODE, "nav", Ax("navigation", None, <<>>), TRUE, ""),
     Desc(ELEMENT_NODE, "main", NoAx, FALSE, "")}

TaskTrees ==
    UNION {{MkTree(p, k, DocIds(n)) : p \in TreeShapes(n), k \in [1..n -> TaskKinds]} :
              n \in 1..MaxTaskNodes}

\* the frame of a call _detect_landmarks_recursive(node, depth, accumulator):
\* `next` is the position of the loop over node.children, sub_regions the
\* list of the region when the node is a landmark
Frame(t, n, depth) ==
    [node |-> n, depth |-> depth, role |-> _get_landmark_role(t[n]),
     next |-> 1, sub_regions |-> <<>>]

\* the frames whose region's sub_regions is the accumulator handed down
LandmarkFrames(stack) == {i \in DOMAIN stack : stack[i].role # None}

\* one accumulator for the top level shared by all calls, as a list created
\* once at module level would be: top-level regions of every task go to the
\* first task's result
AccumulatorAppendShared(ts, self, stack, region) ==
    IF LandmarkFrames(stack) # {}
    THEN LET i == CHOOSE x \in LandmarkFrames(stack) : \A y \in LandmarkFrames(stack) : y <= x
         IN  [ts EXCEPT ![self].stack = [stack EXCEPT ![i].sub_regions = Append(@, region)]]
    ELSE [ts EXCEPT ![self].stack = stack, ![1].result = Append(@, region)]

\* accumulator.append(region): the accumulator is the sub_regions of the
\* nearest landmark call in progress, or the list of detect_landmarks
AccumulatorAppend(ts, self, stack, region) ==
    IF LandmarkFrames(stack) # {}
    THEN LET i == CHOOSE x \in LandmarkFrames(stack) : \A y \in LandmarkFrames(stack) : y <= x
         IN  [ts EXCEPT ![self].stack = [stack EXCEPT ![i].sub_regions = Append(@, region)]]
    ELSE [ts EXCEPT ![self].stack = stack, ![self].result = Append(@, region)]

InitTasks ==
    /\ OutlineIdle
    /\ evaluation = NoEvaluation
    /\ trial = NoTrial
    /\ \E t1 \in TaskTrees, t2 \in TaskTrees :
          tasks = <<[tree |-> t1, pc |-> "called", stack |-> <<>>, result |-> <<>>],
                    [tree |-> t2, pc |-> "called", stack |-> <<>>, result |-> <<>>]>>

TasksFrame ==
    UNCHANGED <<tree, prev_tree, previous, regions, parent_landmark, headings,
                unchanged, pc, evaluation, trial>>

\* detect_landmarks(root): result = [] and the call on the root
TaskCall(self) ==
    /\ tasks[self].pc = "called"
    /\ tasks' = [tasks EXCEPT ![self].pc = "running",
                              ![self].stack = <<Frame(tasks[self].tree, 1, 0)>>]
    /\ TasksFrame

\* `for child in node.children`: the call on the next child, with depth + 1
TaskDescend(self) ==
    LET task == tasks[self]
        stack == task.stack
        top == stack[Len(stack)]
        kids == task.tree[top.node].children
    IN  /\ task.pc = "running"
        /\ top.next <= Len(kids)
        /\ tasks' = [tasks EXCEPT
                        ![self].stack = Append([stack EXCEPT ![Len(stack)].next = @ + 1],
                                               Frame(task.tree, kids[top.next], top.depth + 1))]
        /\ TasksFrame

\* the loop is over: a landmark appends its region, and the call returns
TaskReturn(self) ==
    LET task == tasks[self]
        stack == task.stack
        top == stack[Len(stack)]
        below == SubSeq(stack, 1, Len(stack) - 1)
        region == LandmarkRegion(top.role, _get_ax_name(task.tree[top.node]), top.node,
                                 top.depth, task.tree[top.node].children,
                                 _count_interactive(task.tree, top.node), top.sub_regions)
        appended == IF top.role # None
                    THEN AccumulatorAppend(tasks, self, below, region)
                    ELSE [tasks EXCEPT ![self].stack = below]
    IN  /\ task.pc = "running"
        /\ top.next > Len(task.tree[top.node].children)
        /\ tasks' = IF below = <<>>
                    THEN [appended EXCEPT ![self].pc = "returned"]
                    ELSE appended
        /\ TasksFrame

NextTasks ==
    \/ \E self \in DOMAIN tasks : TaskCall(self)
    \/ \E self \in DOMAIN tasks : TaskDescend(self)
    \/ \E self \in DOMAIN tasks : TaskReturn(self)

SpecTasks == InitTasks /\ [][NextTasks]_vars

-----------------------------------------------------------------------------
(* Vocabulary of the properties: the tree read through its parent links    *)

\* the parent of node n in tree t, 0 for the root
ParentOf(t, n) ==
    IF \E m \in DOMAIN t : \E i \in DOMAIN t[m].children : t[m].children[i] = n
    THEN CHOOSE m \in DOMAIN t : \E i \in DOMAIN t[m].children : t[m].children[i] = n
    ELSE 0

\* the proper ancestors of node n
RECURSIVE AncestorsOf(_, _)
AncestorsOf(t, n) ==
    LET m == ParentOf(t, n)
    IN  IF m = 0 THEN {} ELSE {m} \cup AncestorsOf(t, m)

IsLandmark(t, n) == _get_landmark_role(t[n]) # None

SetMax(S) == CHOOSE x \in S : \A y \in S : y <= x

\* nodes are numbered in pre-order, so the nearest of a set of ancestors is the largest
NearestLandmarkAncestor(t, n) ==
    LET S == {m \in AncestorsOf(t, n) : IsLandmark(t, m)}
    IN  IF S = {} THEN 0 ELSE SetMax(S)

NearestEnclosingLandmark(t, n) ==
    IF IsLandmark(t, n) THEN n ELSE NearestLandmarkAncestor(t, n)

\* every region of a forest with the node of the region whose sub_regions
\* holds it (0 for a top-level region), as a sequence
RECURSIVE FlatRegions(_, _)
FlatRegions(forest, encl) ==
    IF forest = <<>> THEN <<>>
    ELSE <<[region |-> Head(forest), encl |-> encl]>>
            \o FlatRegions(Head(forest).sub_regions, Head(forest).node)
            \o FlatRegions(Tail(forest), encl)

RegionsOfNode(flat, n) == {i \in DOMAIN flat : flat[i].region.node = n}

\* the increasing sequence of the members of a set of numbers
RECURSIVE SortedSeq(_)
SortedSeq(S) ==
    IF S = {} THEN <<>>
    ELSE LET m == CHOOSE x \in S : \A y \in S : x <= y
         IN  <<m>> \o SortedSeq(S \ {m})

Detected == pc \in {"landmarks", "diffed", "done"}
Diffed == pc \in {"diffed", "done"}
Extracted == pc = "done"

-----------------------------------------------------------------------------
(* Properties *)

\* C1: in the forest returned by detect_landmarks every landmark-classified
\* node is the node of exactly one region (nested ones counted), every region's
\* node is a landmark, and a region sits in the sub_regions of the region of its
\* nearest landmark-classified proper ancestor, or at top level when it has none.
C1_LandmarkNesting ==
    Detected =>
        LET flat == FlatRegions(regions, 0)
        IN  /\ \A n \in DOMAIN tree :
                  Cardinality(RegionsOfNode(flat, n)) = (IF IsLandmark(tree, n) THEN 1 ELSE 0)
            /\ \A i \in DOMAIN flat :
                  flat[i].encl = NearestLandmarkAncestor(tree, flat[i].region.node)

\* a nav inside a header: one top-level banner with exactly one navigation sub-region
C1_Witness ==
    /\ Detected
    /\ Len(tree) = 2
    /\ tree[1].tag_name = "header" /\ tree[2].tag_name = "nav"
    /\ Len(regions) = 1
    /\ regions[1].role = "banner"
    /\ Len(regions[1].sub_regions) = 1
    /\ regions[1].sub_regions[1].role = "navigation"
    /\ regions[1].sub_regions[1].node = 2

\* the role strings whose lowercase is form or region
NamedOnlyRoleStrings == {"form", "FORM", "region", "Region"}

LowerOfNamedOnly(r) == IF r \in {"form", "FORM"} THEN "form" ELSE "region"

\* C2: a node whose lowercased AX role is form or region is a landmark iff
\* its accessible name is non-empty: unnamed it is classified none and yields no
\* region whatever its tag, named it yields exactly one region with that role
\* and that name.
C2_NamedOnlyGating ==
    \A n \in DOMAIN tree :
        LET ax == tree[n].ax_node
            named == ax.name # None /\ ax.name # ""
            mine == RegionsOfNode(FlatRegions(regions, 0), n)
        IN  (ax.present /\ ax.role \in NamedOnlyRoleStrings) =>
                /\ (_get_landmark_role(tree[n]) # None) <=> named
                /\ named => _get_landmark_role(tree[n]) = LowerOfNamedOnly(ax.role)
                /\ (Detected /\ ~named) => mine = {}
                /\ (Detected /\ named) =>
                      /\ Cardinality(mine) = 1
                      /\ \A i \in mine :
                            LET r == FlatRegions(regions, 0)[i].region
                            IN  r.role = LowerOfNamedOnly(ax.role) /\ r.name = ax.name

\* an unnamed role=region on a nav element yields no region
C2_Witness ==
    /\ Detected
    /\ tree[1].tag_name = "nav"
    /\ tree[1].ax_node.present
    /\ tree[1].ax_node.role = "region"
    /\ tree[1].ax_node.name = None
    /\ regions = <<>>

\* the most recent earlier heading of strictly lower level, 0 when there is none
NestParent(objs, i) ==
    LET S == {j \in 1..(i - 1) : objs[j].level < objs[i].level}
    IN  IF S = {} THEN 0 ELSE SetMax(S)

\* C3: _nest_headings places each heading, in document order, as a child of
\* the most recent earlier heading whose level is strictly lower, after the
\* children placed before it, and at root level exactly when no earlier heading
\* has a strictly lower level.
C3_NestPlacement ==
    Extracted =>
        LET objs == headings.objs
        IN  /\ headings.root = SortedSeq({i \in DOMAIN objs : NestParent(objs, i) = 0})
            /\ \A j \in DOMAIN objs :
                  objs[j].children = SortedSeq({i \in DOMAIN objs : NestParent(objs, i) = j})

\* [h1, h2, h3, h2]: one root, two h2 children, the first with one h3 child
C3_Witness ==
    /\ Extracted
    /\ Len(headings.objs) = 4
    /\ [i \in 1..4 |-> headings.objs[i].level] = <<1, 2, 3, 2>>
    /\ headings.root = <<1>>
    /\ headings.objs[1].children = <<2, 4>>
    /\ headings.objs[2].children = <<3>>
    /\ headings.objs[3].children = <<>>
    /\ headings.objs[4].children = <<>>

\* the backend ids of the interactive nodes in the subtree of node n
InteractiveIdsUnder(t, n) ==
    {t[m].backend_node_id :
        m \in {x \in DOMAIN t : t[x].is_interactive /\ (x = n \/ n \in AncestorsOf(t, x))}}

\* region r of the current list is matched by a region of the previous list:
\* same key, same element_count, same set of interactive backend ids
MatchedInPrevious(r) ==
    \E j \in DOMAIN previous.list :
        /\ _region_key(previous.list[j]) = _region_key(r)
        /\ previous.list[j].element_count = r.element_count
        /\ InteractiveIdsUnder(prev_tree, previous.list[j].node)
               = InteractiveIdsUnder(tree, r.node)

\* C4: with a previous list, the key of every current region maps to true
\* iff the key occurs in the previous list with the same element_count and the
\* same set of interactive backend ids.
C4_KeyTrueIffMatched ==
    (Diffed /\ ~previous.is_none) =>
        \A i \in DOMAIN regions :
            /\ _region_key(regions[i]) \in DOMAIN unchanged
            /\ unchanged[_region_key(regions[i])] <=> MatchedInPrevious(regions[i])

\* C5: on the first observation (previous is None) every key of every
\* region of the current list maps to false, and the map has no other key.
C5_FirstObservationAllFalse ==
    (Diffed /\ previous.is_none) =>
        /\ DOMAIN unchanged = {_region_key(regions[i]) : i \in DOMAIN regions}
        /\ \A k \in DOMAIN unchanged : unchanged[k] = FALSE

\* a first observation with two regions of different keys holding interactive elements
C5_Witness ==
    /\ Diffed
    /\ previous.is_none
    /\ Len(regions) = 2
    /\ regions[1].element_count > 0
    /\ DOMAIN unchanged = {"navigation:", "main:"}
    /\ ~unchanged["navigation:"] /\ ~unchanged["main:"]

\* the returned forest read in pre-order: each heading before its children
RECURSIVE PreOrder(_, _)
PreOrder(objs, list) ==
    IF list = <<>> THEN <<>>
    ELSE <<Head(list)>> \o PreOrder(objs, objs[Head(list)].children)
                        \o PreOrder(objs, Tail(list))

\* the heading nodes of a tree in document order
DocHeadingNodes(t) == SortedSeq({n \in DOMAIN t : _get_heading_level(t[n]) # <<>>})

\* C6: the forest returned by extract_heading_hierarchy, read in pre-order,
\* is exactly the document-order sequence of the tree's headings: none lost,
\* duplicated or reordered.
C6_PreOrderIsDocumentOrder ==
    Extracted =>
        LET pre == PreOrder(headings.objs, headings.root)
        IN  [i \in DOMAIN pre |-> headings.objs[pre[i]].node] = DocHeadingNodes(tree)

\* three headings, the second and third nested under the first
C6_Witness ==
    /\ Extracted
    /\ Len(headings.objs) = 3
    /\ headings.root = <<1>>
    /\ headings.objs[1].children = <<2, 3>>
    /\ headings.objs[2].node < headings.objs[3].node

\* the label of landmark node n: uppercased role, plus : "name" when named
ExpectedLabel(t, n) ==
    LET ax == t[n].ax_node
    IN  IF ax.present /\ ax.name # None /\ ax.name # ""
        THEN Upper(_get_landmark_role(t[n])) \o ": \"" \o ax.name \o "\""
        ELSE Upper(_get_landmark_role(t[n]))

\* the label of the nearest landmark enclosing node n (n itself included),
\* or the initial argument when none encloses it
EnclosingLabel(n) ==
    LET l == NearestEnclosingLandmark(tree, n)
    IN  IF l = 0 THEN parent_landmark ELSE ExpectedLabel(tree, l)

\* C7: every heading carries as parent_landmark the label of the nearest
\* landmark-classified node enclosing it (the heading node itself when it is a
\* landmark), and the initial parent_landmark argument when none encloses it.
C7_NearestEnclosingLabel ==
    Extracted =>
        \A i \in DOMAIN headings.objs :
            headings.objs[i].parent_landmark = EnclosingLabel(headings.objs[i].node)

\* a heading inside a named nav inside a header carries the nav's label
C7_Witness ==
    /\ Extracted
    /\ Len(tree) = 3
    /\ tree[1].tag_name = "header" /\ tree[1].children = <<2>>
    /\ tree[2].tag_name = "nav" /\ tree[2].children = <<3>>
    /\ Len(headings.objs) = 1
    /\ headings.objs[1].node = 3
    /\ headings.objs[1].parent_landmark = "NAVIGATION: \"Primary\""

\* the landmark nodes entered in document order up to node n
LandmarksEnteredUpTo(t, n) == {m \in 1..n : IsLandmark(t, m)}

\* C8 as stated: last landmark entered wins - a heading is tagged with the
\* label of the last landmark entered before it in document order, also after
\* that landmark's subtree has ended.
C8_LastLandmarkEnteredWins ==
    Extracted =>
        \A i \in DOMAIN headings.objs :
            LET n == headings.objs[i].node
                S == LandmarksEnteredUpTo(tree, n)
            IN  headings.objs[i].parent_landmark =
                    (IF S = {} THEN parent_landmark ELSE ExpectedLabel(tree, SetMax(S)))

\* heading i comes after the subtree of the last landmark entered before it has ended
AfterClosedLandmark(i) ==
    LET n == headings.objs[i].node
        S == LandmarksEnteredUpTo(tree, n)
    IN  S # {} /\ SetMax(S) # n /\ SetMax(S) \notin AncestorsOf(tree, n)

\* C8 amended: the label is restored when the walk leaves a landmark - a
\* heading that comes after a landmark's subtree has ended and before any later
\* landmark is entered is tagged with the label of its nearest enclosing
\* landmark, or with the initial argument when no landmark encloses it.
C8_LabelRestoredOnLeave ==
    Extracted =>
        \A i \in DOMAIN headings.objs :
            AfterClosedLandmark(i) =>
                headings.objs[i].parent_landmark = EnclosingLabel(headings.objs[i].node)

\* a heading after a closed nav inside a header is tagged BANNER, not with the nav's label
C8_Witness ==
    /\ Extracted
    /\ Len(tree) = 3
    /\ tree[1].tag_name = "header" /\ tree[1].children = <<2, 3>>
    /\ tree[2].tag_name = "nav"
    /\ Len(headings.objs) = 1
    /\ AfterClosedLandmark(1)
    /\ headings.objs[1].parent_landmark = "BANNER"
    /\ ExpectedLabel(tree, 2) = "NAVIGATION: \"Primary\""

\* C9 as stated: the tag-name fallback is used only when no AX role is
\* present - a node with a non-empty AX role is classified none or as that
\* (lowercased) role, never through the implicit tag table.
C9_NoFallbackWithRole ==
    Detected =>
        \A n \in DOMAIN tree :
            LET ax == tree[n].ax_node
                flat == FlatRegions(regions, 0)
            IN  (ax.present /\ ax.role # None /\ ax.role # "") =>
                    /\ _get_landmark_role(tree[n]) \in {None, Lower(ax.role)}
                    /\ \A i \in RegionsOfNode(flat, n) : flat[i].region.role = Lower(ax.role)

\* the implicit table of the specification, by tag name as written in the document
ImplicitRoleOfTag(tag) ==
    CASE tag \in {"header", "Header"} -> "banner"
      [] tag \in {"nav", "NAV"} -> "navigation"
      [] tag = "main" -> "main"
      [] tag = "aside" -> "complementary"
      [] tag = "footer" -> "contentinfo"
      [] tag = "search" -> "search"
      [] OTHER -> None

\* the classification of a node by role first and implicit table second;
\* a name-gated role (form or region without a name) either falls through to
\* the table or ends the classification with none
ClassifiedFirstMatch(node, gatedFallsThrough) ==
    LET ax == node.ax_node
        role == IF ax.present /\ ax.role # None /\ ax.role # "" THEN Lower(ax.role) ELSE None
        named == ax.present /\ ax.name # None /\ ax.name # ""
        gated == role \in {"form", "region"} /\ ~named
        byTag == IF node.node_type = ELEMENT_NODE THEN ImplicitRoleOfTag(node.tag_name) ELSE None
    IN  IF role \in LANDMARK_ROLES /\ ~gated THEN role
        ELSE IF role \in LANDMARK_ROLES /\ ~gatedFallsThrough THEN None
        ELSE byTag

\* the roles of the regions detected at node n
RolesDetectedAt(n) ==
    LET flat == FlatRegions(regions, 0)
    IN  {flat[i].region.role : i \in RegionsOfNode(flat, n)}

\* C10 as stated: a landmark role that is not name-gated is the result
\* whatever the tag; otherwise an element is classified by the implicit table;
\* every other node is not a landmark; the result is none or a landmark role.
C10_RoleFirstElseTable ==
    Detected =>
        \A n \in DOMAIN tree :
            /\ _get_landmark_role(tree[n]) \in LANDMARK_ROLES \cup {None}
            /\ _get_landmark_role(tree[n]) = ClassifiedFirstMatch(tree[n], TRUE)
            /\ RolesDetectedAt(n) =
                  {ClassifiedFirstMatch(tree[n], TRUE)} \ {None}

\* C10 amended: a landmark role that is not name-gated is the result
\* whatever the tag; a name-gated landmark role gives none whatever the tag;
\* otherwise (no role, or a role outside the landmark set) an element is
\* classified by the implicit table and every other node is not a landmark;
\* the result is none or a landmark role.
C10_RoleFirstGateEndsElseTable ==
    Detected =>
        \A n \in DOMAIN tree :
            /\ _get_landmark_role(tree[n]) \in LANDMARK_ROLES \cup {None}
            /\ _get_landmark_role(tree[n]) = ClassifiedFirstMatch(tree[n], FALSE)
            /\ RolesDetectedAt(n) =
                  {ClassifiedFirstMatch(tree[n], FALSE)} \ {None}

\* a nav element whose AX role is main is detected as main
C10_Witness ==
    /\ Detected
    /\ tree[1].tag_name = "NAV"
    /\ tree[1].ax_node.present
    /\ tree[1].ax_node.role = "MAIN"
    /\ Len(regions) = 1
    /\ regions[1].role = "main"

\* the headings after heading h and before the next heading of level <= h's
SectionSpan(objs, h) ==
    {k \in (h + 1)..Len(objs) : \A j \in (h + 1)..k : objs[j].level > objs[h].level}

\* the headings nested under heading h at any depth
NestedUnder(objs, h) ==
    LET pre == PreOrder(objs, objs[h].children)
    IN  {pre[i] : i \in DOMAIN pre}

\* C11 as stated: the children of every heading h are exactly the headings
\* after h and before the next heading of level <= h.level (all of which have
\* a level strictly greater than h.level).
C11_ChildrenAreWholeSpan ==
    Extracted =>
        \A h \in DOMAIN headings.objs :
            headings.objs[h].children = SortedSeq(SectionSpan(headings.objs, h))

\* C11 amended: the headings after h and before the next heading of level
\* <= h.level are exactly the headings nested under h at any depth; h.children
\* holds, in document order, those of them with no heading of a lower level
\* than their own between h and themselves; every child has a level strictly
\* greater than its parent's.
C11_ChildrenAreDirectSpan ==
    Extracted =>
        LET objs == headings.objs
        IN  \A h \in DOMAIN objs :
                /\ NestedUnder(objs, h) = SectionSpan(objs, h)
                /\ objs[h].children =
                      SortedSeq({k \in SectionSpan(objs, h) :
                                    \A j \in (h + 1)..(k - 1) : objs[j].level >= objs[k].level})
                /\ \A i \in DOMAIN objs[h].children :
                      objs[objs[h].children[i]].level > objs[h].level

\* [h1, h2, h3]: the h3 is in the h1's span but is a child of the h2 only
C11_Witness ==
    /\ Extracted
    /\ Len(headings.objs) = 3
    /\ [i \in 1..3 |-> headings.objs[i].level] = <<1, 2, 3>>
    /\ SectionSpan(headings.objs, 1) = {2, 3}
    /\ headings.objs[1].children = <<2>>
    /\ headings.objs[2].children = <<3>>

\* C12: every HeadingNode returned by extract_heading_hierarchy has a level
\* between 1 and 6 inclusive.
C12_LevelBetween1And6 ==
    Extracted =>
        \A h \in DOMAIN headings.objs : headings.objs[h].level \in 1..6

\* the backend ids of the interactive nodes under node n, in document order
InteractiveIdSeq(t, n) ==
    LET nodes == SortedSeq({x \in DOMAIN t :
                               t[x].is_interactive /\ (x = n \/ n \in AncestorsOf(t, x))})
    IN  [i \in DOMAIN nodes |-> t[nodes[i]].backend_node_id]

SeqRange(q) == {q[i] : i \in DOMAIN q}

\* the current list has, position by position, the regions of the previous
\* list with the same interactive elements
SameRegionsSameElements ==
    /\ ~previous.is_none
    /\ Len(regions) = Len(previous.list)
    /\ \A i \in DOMAIN regions :
          /\ _region_key(regions[i]) = _region_key(previous.list[i])
          /\ Len(InteractiveIdSeq(tree, regions[i].node))
                = Len(InteractiveIdSeq(prev_tree, previous.list[i].node))
          /\ SeqRange(InteractiveIdSeq(tree, regions[i].node))
                = SeqRange(InteractiveIdSeq(prev_tree, previous.list[i].node))

\* region i holds the same interactive elements as before in a different order
ReorderedIn(i) ==
    InteractiveIdSeq(tree, regions[i].node) # InteractiveIdSeq(prev_tree, previous.list[i].node)

\* C13 as stated: when the interactive elements of a region are merely
\* reordered (same backend ids, different document order), the region's key is
\* mapped to false.
C13_ReorderReported ==
    (Diffed /\ SameRegionsSameElements) =>
        \A i \in DOMAIN regions :
            ReorderedIn(i) => unchanged[_region_key(regions[i])] = FALSE

\* C13 amended: the comparison is between sets of backend ids, so a region
\* whose interactive elements are merely reordered is not reported: when the
\* two observations have the same regions with the same interactive elements,
\* in whatever order, every key is mapped to true.
C13_ReorderNotReported ==
    (Diffed /\ SameRegionsSameElements) =>
        \A k \in DOMAIN unchanged : unchanged[k] = TRUE

\* a nav whose two interactive elements traded places
C13_Witness ==
    /\ Diffed
    /\ SameRegionsSameElements
    /\ Len(regions) = 1
    /\ ReorderedIn(1)
    /\ regions[1].element_count = 2
    /\ unchanged[_region_key(regions[1])] = TRUE

\* the interactive element a node contributes to the regions around it
ElementAt(t, m) == IF t[m].is_interactive THEN {t[m].backend_node_id} ELSE {}

\* the two observations are of the same page except that at node m, inside a
\* nested sub-region, an interactive element was added, removed or replaced
NestedElementChange(m) ==
    /\ ~previous.is_none
    /\ Len(tree) = Len(prev_tree)
    /\ m \in DOMAIN tree
    /\ \A n \in DOMAIN tree :
          /\ tree[n].children = prev_tree[n].children
          /\ n # m => tree[n] = prev_tree[n]
    /\ _get_landmark_role(tree[m]) = _get_landmark_role(prev_tree[m])
    /\ _get_ax_name(tree[m]) = _get_ax_name(prev_tree[m])
    /\ ElementAt(tree, m) # ElementAt(prev_tree, m)
    /\ NearestEnclosingLandmark(tree, m) # 0
    /\ NearestLandmarkAncestor(tree, NearestEnclosingLandmark(tree, m)) # 0

\* the top-level region whose subtree holds node m
TopLevelRegionOf(m) ==
    CHOOSE i \in DOMAIN regions :
        regions[i].node = m \/ regions[i].node \in AncestorsOf(tree, m)

\* C14: an interactive id inside a nested sub-region belongs to the id set
\* of the enclosing region: when an interactive element is added to, removed
\* from or replaced inside a nested sub-region and all else is identical, the
\* key of the enclosing top-level region is mapped to false.
C14_NestedChangeReported ==
    Diffed =>
        \A m \in DOMAIN tree :
            NestedElementChange(m) =>
                /\ ElementAt(tree, m) \subseteq
                      _region_element_ids(tree, regions[TopLevelRegionOf(m)])
                /\ unchanged[_region_key(regions[TopLevelRegionOf(m)])] = FALSE

\* what the diff may know of a list of regions: key, element count, id set
RegionFacts(t, list) ==
    [i \in DOMAIN list |->
        [key |-> _region_key(list[i]),
         count |-> Cardinality({x \in DOMAIN t : t[x].is_interactive
                                  /\ (x = list[i].node \/ list[i].node \in AncestorsOf(t, x))}),
         ids |-> InteractiveIdsUnder(t, list[i].node)]]

FactKeys(facts) == {facts[i].key : i \in DOMAIN facts}

\* the facts that stand for a key: those of the last region with that key
FactsOfKey(facts, k) ==
    LET i == SetMax({x \in DOMAIN facts : facts[x].key = k})
    IN  [count |-> facts[i].count, ids |-> facts[i].ids]

\* the key of a region written out: role, a colon, the name or nothing
KeyText(region) ==
    CASE region.role = "navigation" /\ region.name = "Primary" -> "navigation:Primary"
      [] region.role = "navigation" /\ region.name = None -> "navigation:"
      [] region.role = "main" /\ region.name = None -> "main:"
      [] OTHER -> "?"

\* C15: a region's key is its role, a colon and its name, or nothing for a
\* missing name, and the diff correlates regions by this key only: with a
\* previous list, the flag of a key is decided by the key, element count and
\* id set of the regions alone, so that regions agreeing in these get the flag
\* of an unchanged region whatever their nodes are.
C15_CorrelatedByKeyOnly ==
    (Diffed /\ ~previous.is_none) =>
        LET cur == RegionFacts(tree, regions)
            prev == RegionFacts(prev_tree, previous.list)
        IN  /\ \A i \in DOMAIN regions : _region_key(regions[i]) = KeyText(regions[i])
            /\ \A j \in DOMAIN previous.list :
                  _region_key(previous.list[j]) = KeyText(previous.list[j])
            /\ unchanged = [k \in FactKeys(cur) |->
                              /\ k \in FactKeys(prev)
                              /\ FactsOfKey(cur, k) = FactsOfKey(prev, k)]

\* a named and an unnamed region that moved to other nodes with their
\* interactive elements: both are reported unchanged
C15_Witness ==
    /\ Diffed
    /\ ~previous.is_none
    /\ Len(regions) = 2
    /\ Len(previous.list) = 2
    /\ DOMAIN unchanged = {"navigation:Primary", "navigation:"}
    /\ unchanged["navigation:Primary"] /\ unchanged["navigation:"]
    /\ \E i \in 1..2 : regions[i].element_count = 1
    /\ \A i \in 1..2 : \A j \in 1..2 :
          _region_key(regions[i]) = _region_key(previous.list[j])
              => regions[i].node # previous.list[j].node

\* the nodes of the subtree rooted at n, n included
SubtreeOf(t, n) == {x \in DOMAIN t : x = n \/ n \in AncestorsOf(t, x)}

RECURSIVE SumElementCounts(_)
SumElementCounts(list) ==
    IF list = <<>> THEN 0 ELSE Head(list).element_count + SumElementCounts(Tail(list))

\* C16: the element_count of every region, nested ones included, is the
\* number of interactive nodes in the whole subtree of the region's node, the
\* landmark node itself and the nested sub-regions included; hence it is at
\* least the sum of the element_counts of its direct sub_regions.
C16_ElementCountIsSubtreeCount ==
    Detected =>
        LET flat == FlatRegions(regions, 0)
        IN  \A i \in DOMAIN flat :
                LET r == flat[i].region
                IN  /\ r.element_count =
                          Cardinality({x \in SubtreeOf(tree, r.node) : tree[x].is_interactive})
                    /\ r.element_count >= SumElementCounts(r.sub_regions)

\* an interactive landmark holding a plain interactive node and a nested
\* interactive landmark
C16_Witness ==
    /\ Detected
    /\ Len(regions) = 1
    /\ tree[regions[1].node].is_interactive
    /\ regions[1].element_count = 3
    /\ Len(regions[1].sub_regions) = 1
    /\ regions[1].sub_regions[1].element_count = 1

\* C17: detect_landmarks returns the empty list iff no node of the tree is
\* classified as a landmark, and extract_heading_hierarchy returns the empty
\* list iff no node of the tree is classified as a heading.
C17_EmptyIffNoneClassified ==
    /\ Detected => (regions = <<>> <=> \A n \in DOMAIN tree : ~IsLandmark(tree, n))
    /\ Extracted =>
          /\ headings.root = <<>> <=> \A n \in DOMAIN tree : _get_heading_level(tree[n]) = <<>>
          /\ headings.root = <<>> <=> headings.objs = <<>>

\* a page of three nodes, one of them an unnamed region, with neither a
\* landmark nor a heading: both results are empty
C17_Witness ==
    /\ Extracted
    /\ Len(tree) = 3
    /\ \E n \in DOMAIN tree : AxRoleOf(tree[n]) = "region"
    /\ \E n \in DOMAIN tree : tree[n].node_type = TEXT_NODE
    /\ regions = <<>>
    /\ headings.root = <<>>

KeysOf(list) == {_region_key(list[i]) : i \in DOMAIN list}

\* C18: the keys of the map returned by detect_unchanged_regions are exactly
\* the keys of the regions of the current list, whether previous is None, empty
\* or not; an empty current list gives the empty map, and an empty previous
\* list that is not None gives false for every key.
C18_KeysAreCurrentKeys ==
    Diffed =>
        /\ DOMAIN unchanged = KeysOf(regions)
        /\ regions = <<>> => unchanged = EmptyDict
        /\ (~previous.is_none /\ previous.list = <<>>) =>
              \A k \in DOMAIN unchanged : unchanged[k] = FALSE

\* the previous list has a key the current one lacks, and the other way round
C18_Witness ==
    /\ Diffed
    /\ ~previous.is_none
    /\ KeysOf(previous.list) = {"main:", "navigation:"}
    /\ KeysOf(regions) = {"navigation:", "navigation:Primary"}
    /\ DOMAIN unchanged = {"navigation:", "navigation:Primary"}
    /\ unchanged["navigation:"]
    /\ ~unchanged["navigation:Primary"]

\* C19: diffing a forest against itself reports everything unchanged:
\* detect_unchanged_regions(L, L) maps every key to true, also when several
\* regions of L share a key.
C19_SelfDiffAllTrue ==
    (Diffed /\ ~previous.is_none /\ prev_tree = tree /\ previous.list = regions) =>
        /\ DOMAIN unchanged = KeysOf(regions)
        /\ \A k \in DOMAIN unchanged : unchanged[k] = TRUE

\* a forest diffed against itself in which two regions with different
\* interactive elements share a key
C19_Witness ==
    /\ Diffed
    /\ ~previous.is_none
    /\ prev_tree = tree
    /\ previous.list = regions
    /\ Len(regions) = 2
    /\ _region_key(regions[1]) = _region_key(regions[2])
    /\ regions[1].element_count # regions[2].element_count
    /\ unchanged = ("navigation:" :> TRUE)

\* the integers the `level` properties of a node parse to
ParsedLevels(node) ==
    LET props == node.ax_node.properties
    IN  {PyInt(props[i].value)[1] :
            i \in {j \in DOMAIN props : /\ props[j].name = "level"
                                        /\ props[j].value.t # "none"
                                        /\ PyInt(props[j].value) # <<>>}}

HasHeadingTag(node) == Lower(node.tag_name) \in {"h1", "h2", "h3", "h4", "h5", "h6"}

\* the levels of the headings extracted at node n
LevelsExtractedAt(n) ==
    {headings.objs[h].level : h \in {x \in DOMAIN headings.objs : headings.objs[x].node = n}}

\* C23: a node whose lowercased accessibility role is `heading` is a
\* heading whose level is the integer a `level` property parses to when there
\* is one, else the digit of an h1..h6 tag name, else 1; a node without the
\* heading role is a heading only as an element with an h1..h6 tag (level =
\* the digit), and otherwise is not a heading.
C23_HeadingLevelResolution ==
    Extracted =>
        \A n \in DOMAIN tree :
            LET node == tree[n]
            IN  IF AxRoleOf(node) = "heading"
                THEN \E l \in LevelsExtractedAt(n) :
                        /\ LevelsExtractedAt(n) = {l}
                        /\ IF ParsedLevels(node) # {} THEN l \in ParsedLevels(node)
                           ELSE IF HasHeadingTag(node) THEN l = TagDigit(Lower(node.tag_name))
                           ELSE l = 1
                ELSE IF node.node_type = ELEMENT_NODE /\ HasHeadingTag(node)
                     THEN LevelsExtractedAt(n) = {TagDigit(Lower(node.tag_name))}
                     ELSE LevelsExtractedAt(n) = {}

\* a heading role whose only `level` property is a list, on an H2 element:
\* the level comes from the tag
C23_Witness ==
    /\ Extracted
    /\ AxRoleOf(tree[1]) = "heading"
    /\ tree[1].ax_node.properties # <<>>
    /\ ParsedLevels(tree[1]) = {}
    /\ tree[1].tag_name = "H2"
    /\ LevelsExtractedAt(1) = {2}

\* every region of a forest found from the root with starting depth d has
\* depth d + the number of edges from the root to its node
DepthsAreEdgeCounts(forest, d) ==
    LET flat == FlatRegions(forest, 0)
    IN  \A i \in DOMAIN flat :
            flat[i].region.depth = d + Cardinality(AncestorsOf(tree, flat[i].region.node))

\* C25: a region's depth is the starting depth plus the number of edges
\* from the root to the region's node, landmarks in between or not; hence a
\* sub-region's depth is strictly greater than its enclosing region's.
C25_DepthIsTreeDepth ==
    Detected =>
        /\ DepthsAreEdgeCounts(regions, 0)
        /\ \A d \in {0, 2} : DepthsAreEdgeCounts(detect_landmarks(tree, 1, d), d)
        /\ LET flat == FlatRegions(regions, 0)
           IN  \A i \in DOMAIN flat : \A k \in DOMAIN flat[i].region.sub_regions :
                   flat[i].region.sub_regions[k].depth > flat[i].region.depth

\* a top-level region at depth 1, below a root that is no landmark, with a
\* sub-region at depth 2
C25_Witness ==
    /\ Detected
    /\ Len(regions) = 1
    /\ regions[1].depth = 1
    /\ Len(regions[1].sub_regions) = 1
    /\ regions[1].sub_regions[1].depth = 2

\* C26: a change is never masked by another region sharing the key: when
\* the id set of a current region differs from the id set of every previous
\* region with the same key, the key is not mapped to true.
C26_ChangeNeverMasked ==
    (Diffed /\ ~previous.is_none) =>
        \A i \in DOMAIN regions :
            (\A j \in DOMAIN previous.list :
                _region_key(previous.list[j]) = _region_key(regions[i])
                    => InteractiveIdsUnder(prev_tree, previous.list[j].node)
                          # InteractiveIdsUnder(tree, regions[i].node))
                => unchanged[_region_key(regions[i])] # TRUE

\* the nodes of a list of regions, in list order
NodesOf(list) == [i \in DOMAIN list |-> list[i].node]

\* C27: the top-level list and every sub_regions list are in document
\* order: nodes are numbered in depth-first pre-order, and each list holds its
\* regions by increasing node number.
C27_ListsInDocumentOrder ==
    Detected =>
        /\ NodesOf(regions) = SortedSeq(SeqRange(NodesOf(regions)))
        /\ LET flat == FlatRegions(regions, 0)
           IN  \A i \in DOMAIN flat :
                   NodesOf(flat[i].region.sub_regions)
                      = SortedSeq(SeqRange(NodesOf(flat[i].region.sub_regions)))

\* two top-level regions, the first appended after its sub-region was found
C27_Witness ==
    /\ Detected
    /\ NodesOf(regions) = <<2, 4>>
    /\ NodesOf(regions[1].sub_regions) = <<3>>

\* a second call of _nest_headings on the heading objects of the first
NestedAgain == _nest_headings(headings.objs)

NoRepeats(q) == \A i, j \in DOMAIN q : q[i] = q[j] => i = j

\* C30 as stated: a second call of _nest_headings on the same HeadingNode
\* objects returns a forest structurally equal to the first, and no heading is
\* more than once in any children list.
C30_SecondCallSameForest ==
    Extracted =>
        /\ NestedAgain = headings
        /\ \A h \in DOMAIN NestedAgain.objs : NoRepeats(NestedAgain.objs[h].children)

\* C30 amended: _nest_headings appends to the children lists of the objects
\* it is given and never empties them.  On the fresh objects that
\* extract_heading_hierarchy hands it no heading is more than once in any
\* children list; a second call on the same objects returns the same root
\* list, and every children list then holds its headings twice over.
C30_SecondCallDoublesChildren ==
    Extracted =>
        /\ \A h \in DOMAIN headings.objs : NoRepeats(headings.objs[h].children)
        /\ NestedAgain.root = headings.root
        /\ \A h \in DOMAIN headings.objs :
              NestedAgain.objs[h].children
                 = headings.objs[h].children \o headings.objs[h].children

\* an h1 with two h2 below it: the second call leaves it with four children
C30_Witness ==
    /\ Extracted
    /\ Len(headings.objs) = 3
    /\ headings.root = <<1>>
    /\ headings.objs[1].children = <<2, 3>>
    /\ NestedAgain.root = <<1>>
    /\ NestedAgain.objs[1].children = <<2, 3, 2, 3>>

\* the state of the nesting loop after its first k iterations
RECURSIVE NestPrefix(_, _, _)
NestPrefix(st, i, k) == IF i > k THEN st ELSE NestPrefix(NestStep(st, i), i + 1, k)

\* the stack of _nest_headings after the k-th heading was handled
StackAfter(k) ==
    NestPrefix([objs |-> [i \in DOMAIN headings.objs |->
                            [headings.objs[i] EXCEPT !.children = <<>>]],
                root |-> <<>>, stack |-> <<>>], 1, k).stack

\* heading i enters the stack in its own iteration, on top, and only then
PushedExactlyOnce ==
    \A i \in DOMAIN headings.objs :
        /\ \A k \in 0..(i - 1) : i \notin SeqRange(StackAfter(k))
        /\ StackAfter(i) # <<>> /\ StackAfter(i)[Len(StackAfter(i))] = i
        /\ \A k \in i..Len(headings.objs) :
              Cardinality({x \in DOMAIN StackAfter(k) : StackAfter(k)[x] = i}) <= 1

\* a heading that has left the stack does not come back
PoppedAtMostOnce ==
    \A i \in DOMAIN headings.objs : \A k \in i..Len(headings.objs) :
        i \notin SeqRange(StackAfter(k))
            => \A k2 \in k..Len(headings.objs) : i \notin SeqRange(StackAfter(k2))

\* the number of places (root list or a children list) heading i is at
PlacesOf(i) ==
    Cardinality({x \in DOMAIN headings.root : headings.root[x] = i})
    + Cardinality({hx \in (DOMAIN headings.objs) \X (1..Len(headings.objs)) :
                      /\ hx[2] \in DOMAIN headings.objs[hx[1]].children
                      /\ headings.objs[hx[1]].children[hx[2]] = i})

\* the three calls have returned with every node accounted for
AllReturned ==
    /\ Extracted
    /\ Len(FlatRegions(regions, 0)) = Cardinality({n \in DOMAIN tree : IsLandmark(tree, n)})
    /\ Len(headings.objs) = Cardinality({n \in DOMAIN tree : _get_heading_level(tree[n]) # <<>>})
    /\ DOMAIN unchanged = KeysOf(regions)

C21_InputsUnchanged ==
    [][/\ tree' = tree
       /\ prev_tree' = prev_tree
       /\ previous' = previous
       /\ Detected => regions' = regions
       /\ Detected' =>
             LET flat == FlatRegions(regions', 0)
             IN  \A i \in DOMAIN flat :
                     flat[i].region.children = tree'[flat[i].region.node].children]_vars

\* all three calls were made on a second observation whose first region
\* holds two children
C21_Witness ==
    /\ Extracted
    /\ ~previous.is_none
    /\ previous.list # <<>>
    /\ regions # <<>>
    /\ Len(regions[1].children) = 2
    /\ regions[1].children = tree[regions[1].node].children

\* the criteria of the returned breakdown that are met
CriteriaMet == {k \in DOMAIN evaluation.criteria_met : evaluation.criteria_met[k]}

\* C29: _evaluate_result returns passed = true iff every evaluated
\* criterion is met and score = (criteria met) / (criteria evaluated), so that
\* passed holds exactly when the score is 1; an expected result without any
\* criterion gives (true, 1.0); without an expected result the outcome is the
\* agent's own success flag; in mock mode files_downloaded is no criterion.
C29_PassedIffAllCriteriaMet ==
    evaluation.pc = "returned" =>
        LET criteria_met == evaluation.criteria_met
            total == Cardinality(DOMAIN criteria_met)
            score == evaluation.score
        IN  /\ evaluation.passed <=> CriteriaMet = DOMAIN criteria_met
            /\ score[2] > 0
            /\ total > 0 => score[1] * total = Cardinality(CriteriaMet) * score[2]
            /\ evaluation.passed <=> score[1] = score[2]
            /\ (evaluation.expected_result # <<>> /\ total = 0) =>
                  evaluation.passed /\ score = <<1, 1>>
            /\ evaluation.expected_result = <<>> =>
                  /\ evaluation.passed <=> evaluation.history.is_successful = "True"
                  /\ criteria_met = (SelfAssessmentKey :> evaluation.passed)
            /\ evaluation.model = "mock" =>
                  \A k \in DOMAIN criteria_met : k.kind # "files_downloaded>="

\* a mock run that downloaded nothing where two files were expected, and
\* whose final text holds the one needle: it passes with score 1
C29_Witness ==
    /\ evaluation.pc = "returned"
    /\ evaluation.model = "mock"
    /\ evaluation.expected_result # <<>>
    /\ evaluation.expected_result[1].files_downloaded = <<2>>
    /\ evaluation.expected_result[1].contains = <<(<<"O">>)>>
    /\ evaluation.downloads_path = <<[exists |-> TRUE, files |-> 0]>>
    /\ evaluation.history.final_result = <<(<<"o">>)>>
    /\ evaluation.passed
    /\ evaluation.score = <<1, 1>>
    /\ DOMAIN evaluation.criteria_met = {ContainsKey(<<"O">>)}

\* _run_single_trial is over: it returned or an exception left it
TrialOver == trial.pc \in {"returned", "raised"}

C22_InterleavingSameResult ==
    \A self \in DOMAIN tasks :
        tasks[self].pc = "returned" =>
            /\ tasks[self].stack = <<>>
            /\ tasks[self].result = detect_landmarks(tasks[self].tree, 1, 0)

\* the second task has returned a top-level region while the first, on
\* another tree, is inside a landmark that has already collected a sub-region
C22_Witness ==
    /\ tasks[1].pc = "running"
    /\ Len(tasks[1].stack) = 1
    /\ Len(tasks[1].stack[1].sub_regions) = 1
    /\ tasks[2].pc = "returned"
    /\ tasks[2].tree # tasks[1].tree
    /\ Len(tasks[2].result) = 1
    /\ tasks[2].result[1].depth = 1
    /\ tasks[2].result = detect_landmarks(tasks[2].tree, 1, 0)

====
